---- MODULE Spec2Model ----
(***************************************************************************)
(* The content-extraction pipeline of the EdTech news aggregator:          *)
(* isHomepage, scrapeContent, cleanContent and scrapeMultipleUrls, in the  *)
(* ES-module copy (src/src/messenger.js, "esm") and in the CommonJS copy   *)
(* (src/unnamed/part_000, "cjs").                                          *)
(*                                                                         *)
(* A text is a sequence of runs [ws, n]: n whitespace characters (space,   *)
(* newline, tab, non-breaking space: everything \s matches) or n other     *)
(* characters.  A rendering session counts as released once browser.close()*)
(* has been called on it and has settled.                                  *)
(* Further down: the Twilio messenger of src/src/messenger.js and main of  *)
(* src/src/index.js and src/unnamed/part_001.                              *)
(***************************************************************************)
EXTENDS Integers, Sequences, FiniteSets, TLC

VARIABLES copy, batch, i, pc, results,
          browser, attempts, response, ret, outcome, doc,
          live, launchCalls, closeCalls, navCalls, sleeps,
          waitOutcome, reached, exitPath, log, attempted,
          inflight, waited, sleptMs, lastNav, input, output,
          store, articles, api

vars == <<copy, batch, i, pc, results,
          browser, attempts, response, ret, outcome, doc,
          live, launchCalls, closeCalls, navCalls, sleeps,
          waitOutcome, reached, exitPath, log, attempted,
          inflight, waited, sleptMs, lastNav, input, output, store, articles, api>>

(***************************************************************************)
(* Bounds                                                                  *)
(***************************************************************************)
MaxUrls == 2
MaxFairUrls == 1
MaxSegments == 2
MaxElems == 2
MaxTextLen == 4
MaxOver == 2
MaxResults == 2

(***************************************************************************)
(* Program constants                                                       *)
(***************************************************************************)
maxAttempts == 3
ContainerMin == 200
ParagraphMin == 200
BodyMin == 100
ContentFloor == 100
PolitenessDelayMs == 1000
RetryDelayMs == 2000
MainContentMin == 500
CjsBodyMin == 50
OkStatus == 200

(***************************************************************************)
(* Texts                                                                   *)
(***************************************************************************)
W(n) == [ws |-> FALSE, n |-> n]
S(n) == [ws |-> TRUE, n |-> n]

RECURSIVE TextLen(_)
TextLen(t) == IF t = <<>> THEN 0 ELSE Head(t).n + TextLen(Tail(t))

\* String concatenation; adjacent runs of one class are one run.
Cat(a, b) ==
  IF a = <<>> THEN b
  ELSE IF b = <<>> THEN a
  ELSE IF a[Len(a)].ws = b[1].ws
       THEN SubSeq(a, 1, Len(a) - 1)
            \o <<[ws |-> b[1].ws, n |-> a[Len(a)].n + b[1].n]>>
            \o Tail(b)
       ELSE a \o b

RECURSIVE CatAll(_)
CatAll(ts) == IF ts = <<>> THEN <<>> ELSE Cat(Head(ts), CatAll(Tail(ts)))

RECURSIVE TrimLeft(_)
TrimLeft(t) == IF t # <<>> /\ Head(t).ws THEN TrimLeft(Tail(t)) ELSE t

RECURSIVE TrimRight(_)
TrimRight(t) ==
  IF t # <<>> /\ t[Len(t)].ws THEN TrimRight(SubSeq(t, 1, Len(t) - 1)) ELSE t

\* String.prototype.trim
Trim(t) == TrimRight(TrimLeft(t))

\* replace(/\s+/g, " ")
RECURSIVE CollapseWs(_)
CollapseWs(t) ==
  IF t = <<>> THEN <<>>
  ELSE LET r == CollapseWs(Tail(t))
       IN IF Head(t).ws
          THEN IF r # <<>> /\ Head(r).ws THEN r ELSE <<S(1)>> \o r
          ELSE Cat(<<Head(t)>>, r)

\* Array.prototype.join(" ")
RECURSIVE JoinSp(_)
JoinSp(ts) ==
  IF ts = <<>> THEN <<>>
  ELSE IF Len(ts) = 1 THEN ts[1]
  ELSE Cat(Cat(ts[1], <<S(1)>>), JoinSp(Tail(ts)))

RECURSIVE MapTrim(_)
MapTrim(ts) == IF ts = <<>> THEN <<>> ELSE <<Trim(Head(ts))>> \o MapTrim(Tail(ts))

cleanContentEsm(text) == IF text = <<>> THEN <<>> ELSE Trim(CollapseWs(text))

cleanContentCjs(text) == Trim(CollapseWs(text))

(***************************************************************************)
(* cleanContent character by character.  A string is a sequence of         *)
(* characters; "nbsp" stands for the no-break space U+00A0.                *)
(***************************************************************************)
\* a \s that does not know the no-break space
M_JsSpace_Ascii == {" ", "\n", "\t", "\r"}

\* what \s matches and trim() strips, among the characters of the samples
JsSpace == {" ", "\n", "\t", "\r", "nbsp"}

CleanAlphabet == {"a", "b", " ", "\n", "\t", "\r", "nbsp"}

RECURSIVE DropWhile(_, _)
DropWhile(str, class) ==
  IF str # <<>> /\ Head(str) \in class THEN DropWhile(Tail(str), class) ELSE str

\* the pattern without its +: one space for every character matched
M_ReplaceRuns_EachChar(str, class) ==
  [k \in 1..Len(str) |-> IF str[k] \in class THEN " " ELSE str[k]]

\* str.replace(/[class]+/g, " ")
RECURSIVE ReplaceRuns(_, _)
ReplaceRuns(str, class) ==
  IF str = <<>> THEN <<>>
  ELSE IF Head(str) \in class
       THEN <<" ">> \o ReplaceRuns(DropWhile(str, class), class)
       ELSE <<Head(str)>> \o ReplaceRuns(Tail(str), class)

\* str.replace(/(\r\n|\n|\r)/gm, " ")
RECURSIVE ReplaceBreaks(_)
ReplaceBreaks(str) ==
  IF str = <<>> THEN <<>>
  ELSE IF Len(str) >= 2 /\ str[1] = "\r" /\ str[2] = "\n"
       THEN <<" ">> \o ReplaceBreaks(Tail(Tail(str)))
       ELSE IF Head(str) \in {"\n", "\r"}
            THEN <<" ">> \o ReplaceBreaks(Tail(str))
            ELSE <<Head(str)>> \o ReplaceBreaks(Tail(str))

\* str.replace(/\u00A0/g, " ")
ReplaceNbsp(str) == [k \in 1..Len(str) |-> IF str[k] = "nbsp" THEN " " ELSE str[k]]

RECURSIVE DropLastWhile(_, _)
DropLastWhile(str, class) ==
  IF str # <<>> /\ str[Len(str)] \in class
  THEN DropLastWhile(SubSeq(str, 1, Len(str) - 1), class)
  ELSE str

\* str.trim()
TrimChars(str) == DropLastWhile(DropWhile(str, JsSpace), JsSpace)

\* esm: if (!text) return ""; \s+, \n+ and \t+ to one space each, trim
cleanContentEsmChars(text) ==
  IF text = <<>> THEN <<>>
  ELSE TrimChars(ReplaceRuns(ReplaceRuns(ReplaceRuns(text, JsSpace), {"\n"}),
                             {"\t"}))

\* cjs: line breaks to spaces, \s+ to one space, no-break spaces to spaces,
\* trim
cleanContentCjsChars(text) ==
  TrimChars(ReplaceNbsp(ReplaceRuns(ReplaceBreaks(text), JsSpace)))

cleanContentChars(c, text) ==
  IF c = "esm" THEN cleanContentEsmChars(text) ELSE cleanContentCjsChars(text)

\* the strings of at most n characters
RECURSIVE StringsUpTo(_)
StringsUpTo(n) ==
  IF n = 0 THEN {<<>>}
  ELSE LET shorter == StringsUpTo(n - 1)
       IN shorter \cup { Append(str, ch) : str \in shorter, ch \in CleanAlphabet }

(***************************************************************************)
(* URLs and isHomepage                                                     *)
(***************************************************************************)
UpperChars == <<"A","B","C","D","E","F","G","H","I","J","K","L","M",
                "N","O","P","Q","R","S","T","U","V","W","X","Y","Z">>
LowerChars == <<"a","b","c","d","e","f","g","h","i","j","k","l","m",
                "n","o","p","q","r","s","t","u","v","w","x","y","z">>

\* the /i flag of the patterns
LowerOf == [c \in {UpperChars[k] : k \in 1..Len(UpperChars)} |->
              LowerChars[CHOOSE k \in 1..Len(UpperChars) : UpperChars[k] = c]]

ToLowerChar(c) == IF c \in DOMAIN LowerOf THEN LowerOf[c] ELSE c

ToLower(p) == [k \in 1..Len(p) |-> ToLowerChar(p[k])]

\* the path taken from the URL with its query string
M_Pathname_WithSearch(u) ==
  (IF u.path = <<>> THEN <<"/">> ELSE u.path) \o u.search

\* new URL(url).pathname: never empty for an http(s) URL, and without the
\* host, the query string (search) and the fragment (hash).  Sample paths
\* are already in the normal form the URL parser produces.
Pathname(u) == IF u.path = <<>> THEN <<"/">> ELSE u.path

IndexNames == { <<"i","n","d","e","x">>, <<"h","o","m","e">>,
                <<"d","e","f","a","u","l","t">>,
                <<"w","e","l","c","o","m","e">> }
IndexExts == { <<"h","t","m","l">>, <<"p","h","p">>, <<"a","s","p">>,
               <<"j","s","p">> }
HomeNames == { <<"h","o","m","e">>, <<"m","a","i","n">> }
NonArticleNames == { <<"a","b","o","u","t">>, <<"c","o","n","t","a","c","t">>,
                     <<"f","a","q">>, <<"h","e","l","p">>,
                     <<"s","u","p","p","o","r","t">>, <<"t","e","r","m","s">>,
                     <<"p","r","i","v","a","c","y">>, <<"l","o","g","i","n">>,
                     <<"s","i","g","n","u","p">>,
                     <<"r","e","g","i","s","t","e","r">>,
                     <<"a","c","c","o","u","n","t">> }

\* /^\/name\/?$/i for one of the names
SlashOpt(names, path) ==
  LET lower == ToLower(path)
  IN \E nm \in names :
       \/ lower = <<"/">> \o nm
       \/ lower = <<"/">> \o nm \o <<"/">>

\* only the index.<ext> pattern of the four file patterns
M_homepagePatterns_IndexOnly(path) ==
  \/ path = <<"/">>
  \/ LET lower == ToLower(path)
     IN \E ext \in IndexExts :
          lower = <<"/","i","n","d","e","x",".">> \o ext
  \/ SlashOpt(HomeNames, path)

\* the /main pattern left out
M_homepagePatterns_NoMain(path) ==
  \/ path = <<"/">>
  \/ LET lower == ToLower(path)
     IN \E nm \in IndexNames, ext \in IndexExts :
          lower = <<"/">> \o nm \o <<".">> \o ext
  \/ SlashOpt({<<"h","o","m","e">>}, path)

homepagePatterns(path) ==
  \/ path = <<"/">>
  \/ LET lower == ToLower(path)
     IN \E nm \in IndexNames, ext \in IndexExts :
          lower = <<"/">> \o nm \o <<".">> \o ext
  \/ SlashOpt(HomeNames, path)

\* the patterns without their $ anchor
M_nonArticlePatterns_NoEndAnchor(path) ==
  LET lower == ToLower(path)
  IN \E nm \in NonArticleNames :
       /\ Len(lower) > Len(nm)
       /\ SubSeq(lower, 1, Len(nm) + 1) = <<"/">> \o nm

nonArticlePatterns(path) == SlashOpt(NonArticleNames, path)

isHomepage(u) ==
  IF ~u.valid THEN FALSE
  ELSE LET path == Pathname(u)
       IN \/ homepagePatterns(path)
          \/ path = <<>> \/ path = <<"/">>
          \/ nonArticlePatterns(path)

UrlArticle == [valid |-> TRUE, host |-> "news.example",
               path |-> <<"/","2","0","2","5","/","a","i","-","s","l","u","g","/">>,
               search |-> <<>>, hash |-> <<>>]
UrlStory == [valid |-> TRUE, host |-> "mag.example",
             path |-> <<"/","s","t","o","r","y","/","4","2">>,
             search |-> <<>>, hash |-> <<>>]
PathDated == <<"/","2","0","2","5","/","0","6","/","1","9","/","a","r","t","i","c","l","e","-","s","l","u","g","/">>
UrlRoot == [valid |-> TRUE, host |-> "blog.example", path |-> <<>>,
            search |-> <<>>, hash |-> <<>>]
UrlAbout == [valid |-> TRUE, host |-> "corp.example",
             path |-> <<"/","A","b","o","u","t","/">>,
             search |-> <<>>, hash |-> <<>>]
UrlMalformed == [valid |-> FALSE, host |-> "", path |-> <<>>,
                 search |-> <<>>, hash |-> <<>>]

SampleUrls == {UrlArticle, UrlRoot, UrlAbout, UrlMalformed}

\* no try/catch around new URL(url)
M_isHomepageCall_NoCatch(u) ==
  IF ~u.valid
  THEN [kind |-> "raised", val |-> FALSE]
  ELSE [kind |-> "returned", val |-> isHomepage(u)]

\* the call of isHomepage as its caller sees it: new URL(url) throws on a
\* string that is no URL, and the catch block returns false
isHomepageCall(u) ==
  IF ~u.valid
  THEN [kind |-> "returned", val |-> FALSE]
  ELSE [kind |-> "returned", val |-> isHomepage(u)]

\* the letter cases a path is tried in
UpperOf == [c \in {LowerChars[k] : k \in 1..Len(LowerChars)} |->
              UpperChars[CHOOSE k \in 1..Len(LowerChars) : LowerChars[k] = c]]
ToUpperChar(c) == IF c \in DOMAIN UpperOf THEN UpperOf[c] ELSE c
Cased(p, style) ==
  [k \in 1..Len(p) |->
     IF style = "upper" \/ (style = "capital" /\ k = 2)
     THEN ToUpperChar(p[k]) ELSE p[k]]
CaseStyles == {"lower", "upper", "capital"}

\* first path segments: every name of the patterns, every name with an
\* extension (listed or not), and names that only resemble them
FileNames ==
  { nm \o <<".">> \o ext :
      nm \in IndexNames \cup {<<"m","a","i","n">>, <<"a","b","o","u","t">>},
      ext \in IndexExts \cup {<<"h","t","m">>} }
FirstSegs ==
  IndexNames \cup HomeNames \cup NonArticleNames \cup FileNames
    \cup {<<"a","b","o","u","t","-","u","s">>, <<"2","0","2","5">>, <<"h","o","m","e","p","a","g","e">>}
MoreSegs == {<<"t","e","a","m">>, <<"a","b","o","u","t">>, <<"0","6">>}
Endings == {<<>>, <<"/">>, <<"/","/">>}

\* the paths of at most n segments
RECURSIVE PathsUpTo(_)
PathsUpTo(n) ==
  IF n = 0 THEN {}
  ELSE IF n = 1 THEN { <<"/">> \o f : f \in FirstSegs }
  ELSE LET shorter == PathsUpTo(n - 1)
       IN shorter \cup { q \o <<"/">> \o m : q \in shorter, m \in MoreSegs }

SamplePaths ==
  {<<>>, <<"/">>, UrlArticle.path, UrlStory.path, PathDated}
    \cup { Cased(q \o e, st) :
             q \in PathsUpTo(MaxSegments), e \in Endings, st \in CaseStyles }

\* absolute URLs with these paths, and the same strings without a scheme,
\* which new URL() rejects
\* what a URL carries besides its path: host, query string, fragment
UrlDress ==
  { [host |-> "news.example", search |-> <<>>, hash |-> <<>>],
    [host |-> "blog.example", search |-> <<>>, hash |-> <<>>],
    [host |-> "news.example", search |-> <<"?","p","=","1","2","3">>, hash |-> <<>>],
    [host |-> "blog.example", search |-> <<"?","p","=","1","2","3">>,
     hash |-> <<"#","t","o","p">>] }

ClassifyUrls ==
  { [valid |-> TRUE, host |-> dr.host, path |-> q, search |-> dr.search,
     hash |-> dr.hash] : dr \in UrlDress, q \in SamplePaths }
  \cup { [valid |-> FALSE, host |-> "", path |-> q, search |-> <<>>,
          hash |-> <<>>] : q \in SamplePaths }

(***************************************************************************)
(* Rendered documents and the extraction chain                             *)
(***************************************************************************)
contentSelectors == <<"article", ".article", ".content", "#content", "main",
                      ".post", ".entry", ".story", ".text", ".body">>
articleSelectors == <<"article", ".article", ".post", ".entry", ".content",
                      "#content", ".article-content", ".post-content",
                      ".entry-content", "main", "[role='main']",
                      ".main-content", "#main-content", ".body-content",
                      "#body-content">>

Range(f) == {f[k] : k \in DOMAIN f}
AllSelectors == Range(contentSelectors) \cup Range(articleSelectors)

\* $(selector).text().trim(): the combined text of the matched elements
SelText(d, sel) == Trim(CatAll(d.sel[sel]))

\* for (const selector of contentSelectors) ... break
RECURSIVE ContainerFrom(_, _)
ContainerFrom(d, k) ==
  IF k > Len(contentSelectors) THEN <<>>
  ELSE IF d.sel[contentSelectors[k]] # <<>>
          /\ TextLen(SelText(d, contentSelectors[k])) > ContainerMin
       THEN SelText(d, contentSelectors[k])
       ELSE ContainerFrom(d, k + 1)

\* no break: the last selector above the threshold wins
M_ContainerText_LastWins(d) ==
  LET ks == { k \in 1..Len(contentSelectors) :
                /\ d.sel[contentSelectors[k]] # <<>>
                /\ TextLen(SelText(d, contentSelectors[k])) > ContainerMin }
  IN IF ks = {} THEN <<>>
     ELSE SelText(d, contentSelectors[CHOOSE k \in ks : \A j \in ks : j <= k])

ContainerText(d) == ContainerFrom(d, 1)

ParagraphText(d) == Trim(JoinSp(MapTrim(d.paras)))

BodyText(d) == Trim(d.body)

\* the paragraphs read whatever the containers gave
M_RunsParagraphs_Always(t) == TRUE

\* if (!extractedText || extractedText.length < 200)
RunsParagraphs(t) == t = <<>> \/ TextLen(t) < ParagraphMin

\* the body read also for a text of exactly 100 characters
M_RunsBody_AtMost(t) == t = <<>> \/ TextLen(t) <= BodyMin

\* if (!extractedText || extractedText.length < 100)
RunsBody(t) == t = <<>> \/ TextLen(t) < BodyMin

\* extractedText after each of the three strategies
ExtractStagesEsm(d) ==
  LET t1 == ContainerText(d)
      t2 == IF RunsParagraphs(t1) THEN ParagraphText(d) ELSE t1
      t3 == IF RunsBody(t2) THEN BodyText(d) ELSE t2
  IN [container |-> t1, ranParagraphs |-> RunsParagraphs(t1), paragraphs |-> t2,
      ranBody |-> RunsBody(t2), text |-> t3]

ExtractEsm(d) == ExtractStagesEsm(d).text

\* mainContent keeps the text of the last selector tried
RECURSIVE MainContentFrom(_, _, _)
MainContentFrom(d, k, cur) ==
  IF k > Len(articleSelectors) THEN cur
  ELSE IF d.sel[articleSelectors[k]] # <<>>
       THEN IF TextLen(SelText(d, articleSelectors[k])) > MainContentMin
            THEN SelText(d, articleSelectors[k])
            ELSE MainContentFrom(d, k + 1, SelText(d, articleSelectors[k]))
       ELSE MainContentFrom(d, k + 1, cur)

MainContent(d) == MainContentFrom(d, 1, <<>>)

\* `${a} ${b}`
Sp(a, b) == Cat(Cat(a, <<S(1)>>), b)

ExtractCjs(d) ==
  LET mainContent == MainContent(d)
      allText == IF TextLen(mainContent) > MainContentMin
                 THEN Sp(d.title, mainContent)
                 ELSE Sp(d.title, Sp(JoinSp(MapTrim(d.headings)),
                         Sp(JoinSp(MapTrim(d.paras)),
                            Sp(JoinSp(MapTrim(d.lis)), JoinSp(MapTrim(d.other))))))
  IN IF allText = <<>> \/ TextLen(Trim(allText)) < CjsBodyMin
     THEN BodyText(d) ELSE allText

Empty == [kind |-> "value", content |-> <<>>]
NoRet == [kind |-> "none", content |-> <<>>]

\* the floor applied to the text before it is cleaned
M_ExtractResultEsm_RawFloor(d) ==
  LET cleanedText == cleanContentEsm(ExtractEsm(d))
  IN IF ExtractEsm(d) = <<>> \/ TextLen(ExtractEsm(d)) < ContentFloor
     THEN Empty
     ELSE [kind |-> "value", content |-> cleanedText]

\* the value of the return statement that ends the extraction
ExtractResultEsm(d) ==
  LET cleanedText == cleanContentEsm(ExtractEsm(d))
  IN IF cleanedText = <<>> \/ TextLen(cleanedText) < ContentFloor
     THEN Empty
     ELSE [kind |-> "value", content |-> cleanedText]

ExtractResultCjs(d) == [kind |-> "value", content |-> cleanContentCjs(ExtractCjs(d))]

ExtractResult(c, d) == IF c = "esm" THEN ExtractResultEsm(d) ELSE ExtractResultCjs(d)

NoMatch == [s \in AllSelectors |-> <<>>]
NoDoc == [title |-> <<>>, sel |-> NoMatch, paras |-> <<>>, headings |-> <<>>,
          lis |-> <<>>, other |-> <<>>, body |-> <<>>]

\* an article container of 250 characters, paragraphs of 50
DocContainer ==
  [NoDoc EXCEPT !.title = <<W(20)>>,
                !.sel = [NoMatch EXCEPT !["article"] = << <<S(3), W(250), S(2)>> >>],
                !.paras = << <<W(50)>> >>,
                !.body = <<S(3), W(250), S(2), W(50)>>]

\* no container above the threshold, paragraphs of 300 in all
DocParagraphs ==
  [NoDoc EXCEPT !.title = <<W(20)>>,
                !.sel = [NoMatch EXCEPT ![".content"] = << <<W(150)>> >>],
                !.paras = << <<W(149), S(4)>>, <<S(2), W(150)>> >>,
                !.body = <<W(150), S(1), W(149), S(6), W(150)>>]

\* 160 raw characters of body text, 61 once whitespace is collapsed
DocSparse ==
  [NoDoc EXCEPT !.body = <<S(1), W(30), S(100), W(30)>>]

\* a short page: a title and 40 characters of text
DocThin ==
  [NoDoc EXCEPT !.title = <<W(12)>>, !.body = <<W(40)>>]

SampleDocs == {DocContainer, DocParagraphs, DocSparse, DocThin, NoDoc}

\* the sequences of at most n members of a set
RECURSIVE ListsUpTo(_, _)
ListsUpTo(set, n) ==
  IF n = 0 THEN {<<>>}
  ELSE LET shorter == ListsUpTo(set, n - 1)
       IN shorter \cup { Append(l, x) : l \in shorter, x \in set }

\* documents around the thresholds: one or more elements under the first
\* and under the last content selector (99 or 200 characters each, so 99,
\* 200, 200 again for two of 99 and a space, 300 and more), paragraphs of
\* 149, 50 and 49 characters (99 or 100 for two of them and a space), a
\* short or a long body
ElemTexts == { <<S(1), W(99), S(1)>>, <<W(200)>> }
ParaTexts == { <<W(149), S(4)>>, <<S(2), W(50)>>, <<W(49)>> }
BodyTexts == { <<W(40)>>, <<S(3), W(400), S(1), W(20)>> }

ExtractDocs ==
  SampleDocs \cup
  { [NoDoc EXCEPT !.sel = [NoMatch EXCEPT !["article"] = a, ![".body"] = b],
                  !.paras = ps,
                  !.body = bd] :
      a \in ListsUpTo(ElemTexts, MaxElems), b \in ListsUpTo(ElemTexts, MaxElems),
      ps \in ListsUpTo(ParaTexts, MaxElems), bd \in BodyTexts }

(***************************************************************************)
(* extractPublicationDate.  A date source is what one selector matches: an *)
(* element or none, with its content and datetime attributes and its text. *)
(* A value is the string (raw, empty when the attribute is missing or "")  *)
(* and what new Date(raw) makes of it (a day, or "invalid").               *)
(***************************************************************************)
dateSelectors == <<"meta[property=article:published_time]",
                   "meta[name=publish_date]", "meta[name=date]",
                   "meta[name=pubdate]", "meta[name=publication_date]",
                   "time[datetime]", ".date", ".published", ".pubdate",
                   ".timestamp">>

NoValue == [raw |-> <<>>, day |-> "invalid"]
Absent == [present |-> FALSE, content |-> NoValue, datetime |-> NoValue,
           text |-> NoValue]
BareElement == [Absent EXCEPT !.present = TRUE]

IsoValue == [raw |-> <<W(20)>>, day |-> "2025-06-19"]
OtherIsoValue == [raw |-> <<W(10)>>, day |-> "2025-06-18"]
PaddedWords == [raw |-> <<S(1), W(4), S(1), W(7), S(2)>>, day |-> "invalid"]
BlankValue == [raw |-> <<S(3)>>, day |-> "invalid"]
GarbageValue == [raw |-> <<W(7)>>, day |-> "invalid"]

DateSources ==
  { Absent, BareElement,
    [BareElement EXCEPT !.content = IsoValue],
    [BareElement EXCEPT !.content = GarbageValue],
    [BareElement EXCEPT !.datetime = OtherIsoValue],
    [BareElement EXCEPT !.text = PaddedWords],
    [BareElement EXCEPT !.text = BlankValue] }

NoDates == [sel \in Range(dateSelectors) |-> Absent]

\* documents with sources under the first meta selector, a later meta
\* selector, time[datetime] and .date
DateDocs ==
  { [NoDates EXCEPT !["meta[property=article:published_time]"] = a,
                    !["meta[name=date]"] = b,
                    !["time[datetime]"] = c,
                    ![".date"] = e] :
      a \in DateSources, b \in DateSources, c \in DateSources, e \in DateSources }

NullDate == [kind |-> "null"]

\* element.attr("content") || element.attr("datetime") || element.text()
DateOf(src) ==
  IF src.content.raw # <<>> THEN src.content
  ELSE IF src.datetime.raw # <<>> THEN src.datetime
  ELSE src.text

\* esm: for (const selector of dateSelectors) ... if (date) return date.trim()
RECURSIVE DateFromEsm(_, _)
DateFromEsm(dd, k) ==
  IF k > Len(dateSelectors) THEN NullDate
  ELSE LET src == dd[dateSelectors[k]]
       IN IF src.present /\ DateOf(src).raw # <<>>
          THEN [kind |-> "string", text |-> Trim(DateOf(src).raw)]
          ELSE DateFromEsm(dd, k + 1)

extractPublicationDateEsm(dd) ==
  [kind |-> "returned", val |-> DateFromEsm(dd, 1)]

\* $(selector).attr("content"): undefined when nothing matches
ContentOf(dd, sel) == IF dd[sel].present THEN dd[sel].content ELSE NoValue

\* cjs: the chain of || over four meta tags, then time[datetime]
DateStrCjs(dd) ==
  LET metas == <<"meta[property=article:published_time]", "meta[name=pubdate]",
                 "meta[name=publication_date]", "meta[name=date]">>
      found == { k \in 1..Len(metas) : ContentOf(dd, metas[k]).raw # <<>> }
  IN IF found # {}
     THEN ContentOf(dd, metas[CHOOSE k \in found : \A j \in found : k <= j])
     ELSE IF dd["time[datetime]"].present
          THEN dd["time[datetime]"].datetime
          ELSE NoValue

\* no try block around toISOString()
M_extractPublicationDateCjs_NoTry(dd) ==
  LET dateStr == DateStrCjs(dd)
  IN IF dateStr.raw # <<>>
     THEN IF dateStr.day = "invalid"
          THEN [kind |-> "raised", val |-> NullDate]
          ELSE [kind |-> "returned", val |-> [kind |-> "day", day |-> dateStr.day]]
     ELSE [kind |-> "returned", val |-> NullDate]

\* cjs: new Date(dateStr).toISOString().split("T")[0]; toISOString throws a
\* RangeError on an invalid date and the catch block returns null
extractPublicationDateCjs(dd) ==
  LET dateStr == DateStrCjs(dd)
  IN IF dateStr.raw # <<>>
     THEN IF dateStr.day = "invalid"
          THEN [kind |-> "returned", val |-> NullDate]
          ELSE [kind |-> "returned", val |-> [kind |-> "day", day |-> dateStr.day]]
     ELSE [kind |-> "returned", val |-> NullDate]

(***************************************************************************)
(* The rendering capability: what its calls can answer                     *)
(***************************************************************************)
Null == [kind |-> "null", status |-> 0]
Responses == { Null,
               [kind |-> "status", status |-> OkStatus],
               [kind |-> "status", status |-> 404],
               [kind |-> "nostatus", status |-> 0] }

\* page.goto resolved, page.goto rejected, or the timer of the race rejected;
\* page.goto rejects at once for a string that is no URL
NavOutcomes(u) == IF u.valid THEN {"resolved", "error", "timeout"} ELSE {"error"}

\* waitForSelector resolved, or rejected (its 5 s timeout, or another error)
WaitOutcomes == {"found", "timeout"}

\* the status left unchecked
M_BadResponse_NullOnly(r) == r = Null

\* !response || (response.status && response.status() !== 200)
BadResponse(r) == r = Null \/ (r.kind = "status" /\ r.status # OkStatus)

\* two skippable candidates, one whose fetch may fail, two articles
ExampleBatch == <<UrlRoot, UrlArticle, UrlAbout, UrlMalformed, UrlStory>>

Batches == UNION { [1..n -> SampleUrls] : n \in 0..MaxUrls } \cup {ExampleBatch}

\* the candidate lists of the runs checked for termination
FairBatches == UNION { [1..n -> {UrlArticle, UrlRoot}] : n \in 0..MaxFairUrls }

url == batch[i]

\* the argument and the result of a function applied on its own
NoInput == [kind |-> "none"]
NoOutput == [kind |-> "none"]

Article(u, r) == [url |-> u, content |-> r.content]

(***************************************************************************)
(* scrapeMultipleUrls and scrapeContent                                    *)
(***************************************************************************)
StartWith(batches) ==
  /\ copy \in {"esm", "cjs"}
  /\ batch \in batches
  /\ i = 0
  /\ pc = "loop"
  /\ results = <<>>
  /\ browser = "null"
  /\ attempts = 0
  /\ response = Null
  /\ ret = NoRet
  /\ outcome = "none"
  /\ doc = NoDoc
  /\ live = 0
  /\ launchCalls = 0
  /\ closeCalls = 0
  /\ navCalls = 0
  /\ sleeps = 0
  /\ waitOutcome = "none"
  /\ reached = {}
  /\ exitPath = "none"
  /\ log = <<>>
  /\ attempted = <<>>
  /\ inflight = 0
  /\ waited = 0
  /\ sleptMs = 0
  /\ lastNav = "none"
  /\ input = NoInput
  /\ output = NoOutput
  /\ store = {}
  /\ articles = <<>>
  /\ api = <<>>

Init == StartWith(Batches)

\* for (const result of searchResults): the next candidate
NextResult ==
  /\ pc = "loop"
  /\ i < Len(batch)
  /\ i' = i + 1
  /\ pc' = IF copy = "cjs" THEN "batchcheck" ELSE "call"
  /\ browser' = "null"
  /\ attempts' = 0
  /\ response' = Null
  /\ ret' = NoRet
  /\ outcome' = "none"
  /\ doc' = NoDoc
  /\ launchCalls' = 0
  /\ closeCalls' = 0
  /\ navCalls' = 0
  /\ sleeps' = 0
  /\ waitOutcome' = "none"
  /\ reached' = {}
  /\ exitPath' = "none"
  /\ attempted' = Append(attempted, i + 1)
  /\ inflight' = 0
  /\ sleptMs' = 0
  /\ lastNav' = "none"
  /\ UNCHANGED <<copy, batch, results, live, log, waited, input, output, store, articles, api>>

\* cjs: if (isHomepage(result.url)) continue
BatchCheck ==
  /\ UNCHANGED <<attempted, inflight, waited, sleptMs, lastNav, input, output, store, articles, api>>
  /\ pc = "batchcheck"
  /\ IF isHomepage(url)
     THEN /\ pc' = "loop"
          /\ exitPath' = "batchSkipped"
          /\ log' = Append(log, "skipped")
     ELSE /\ pc' = "call"
          /\ UNCHANGED <<exitPath, log>>
  /\ UNCHANGED <<copy, batch, i, results, browser, attempts, response, ret,
                 outcome, doc, live, launchCalls, closeCalls, navCalls, sleeps,
                 waitOutcome, reached>>

\* the homepage check forgotten: every URL is fetched
M_ScrapeContent_NoSkip ==
  /\ pc = "call"
  /\ pc' = "launch"
  /\ UNCHANGED <<copy, batch, i, results, browser, attempts, response, ret,
                 outcome, doc, live, launchCalls, closeCalls, navCalls, sleeps,
                 waitOutcome, reached, exitPath, log, attempted, inflight,
                 waited, sleptMs, lastNav, input, output, store, articles, api>>

\* scrapeContent(url): the homepage check before the try block
ScrapeContent ==
  /\ UNCHANGED <<attempted, inflight, waited, sleptMs, lastNav, input, output, store, articles, api>>
  /\ pc = "call"
  /\ IF isHomepage(url)
     THEN /\ ret' = Empty
          /\ outcome' = "returned"
          /\ exitPath' = "skipped"
          /\ pc' = "receive"
     ELSE /\ pc' = "launch"
          /\ UNCHANGED <<ret, outcome, exitPath>>
  /\ UNCHANGED <<copy, batch, i, results, browser, attempts, response, doc,
                 live, launchCalls, closeCalls, navCalls, sleeps, waitOutcome,
                 reached, log>>

\* a failed launch tried a second time
M_Launch_Retry ==
  /\ pc = "launch"
  /\ launchCalls' = launchCalls + 1
  /\ \E ok \in BOOLEAN :
       IF ok
       THEN /\ browser' = "open"
            /\ live' = live + 1
            /\ pc' = "setup"
            /\ UNCHANGED <<ret, exitPath>>
       ELSE IF launchCalls' < 2
            THEN UNCHANGED <<pc, ret, exitPath, browser, live>>
            ELSE /\ ret' = Empty
                 /\ exitPath' = "launchError"
                 /\ pc' = "finally"
                 /\ UNCHANGED <<browser, live>>
  /\ UNCHANGED <<copy, batch, i, results, attempts, response, outcome, doc,
                 closeCalls, navCalls, sleeps, waitOutcome, reached, log,
                 attempted, inflight,
                 waited, sleptMs, lastNav, input, output, store, articles, api>>

\* browser = await puppeteer.launch(...); a rejection goes to the catch block
Launch ==
  /\ UNCHANGED <<attempted, inflight, waited, sleptMs, lastNav, input, output, store, articles, api>>
  /\ pc = "launch"
  /\ launchCalls' = launchCalls + 1
  /\ \E ok \in BOOLEAN :
       IF ok
       THEN /\ browser' = "open"
            /\ live' = live + 1
            /\ pc' = "setup"
            /\ UNCHANGED <<ret, exitPath>>
       ELSE /\ ret' = Empty
            /\ exitPath' = "launchError"
            /\ pc' = "finally"
            /\ UNCHANGED <<browser, live>>
  /\ UNCHANGED <<copy, batch, i, results, attempts, response, outcome, doc,
                 closeCalls, navCalls, sleeps, waitOutcome, reached, log>>

\* newPage, setDefaultNavigationTimeout, setRequestInterception, setUserAgent
Setup ==
  /\ UNCHANGED <<attempted, inflight, waited, sleptMs, lastNav, input, output, store, articles, api>>
  /\ pc = "setup"
  /\ \E ok \in BOOLEAN :
       IF ok
       THEN /\ response' = Null
            /\ attempts' = 0
            /\ reached' = reached \cup {"setup"}
            /\ pc' = "nav"
            /\ UNCHANGED <<ret, exitPath>>
       ELSE /\ ret' = Empty
            /\ exitPath' = "setupError"
            /\ pc' = "finally"
            /\ UNCHANGED <<response, attempts, reached>>
  /\ UNCHANGED <<copy, batch, i, results, browser, outcome, doc, live,
                 launchCalls, closeCalls, navCalls, sleeps, waitOutcome, log>>

\* no break after the race: the while condition sends a navigation that
\* resolved with no response back into the loop
M_Navigate_RetryOnNull ==
  /\ UNCHANGED <<attempted, waited, sleptMs, input, output, store, articles, api>>
  /\ pc = "nav"
  /\ IF response = Null /\ attempts < maxAttempts
     THEN /\ attempts' = attempts + 1
          /\ navCalls' = navCalls + 1
          /\ reached' = reached \cup {"nav"}
          /\ \E o \in NavOutcomes(url) :
               /\ lastNav' = o
               /\ \E k \in 0..inflight :
                    inflight' = k + (IF o = "timeout" THEN 1 ELSE 0)
               /\ IF o = "resolved"
                  THEN /\ \E r \in Responses : response' = r
                       /\ pc' = IF response' = Null THEN "nav" ELSE "validate"
                       /\ UNCHANGED <<ret, exitPath>>
                  ELSE /\ UNCHANGED response
                       /\ IF attempts' >= maxAttempts
                          THEN /\ ret' = Empty
                               /\ exitPath' = "navExhausted"
                               /\ pc' = "finally"
                          ELSE /\ pc' = "navsleep"
                               /\ UNCHANGED <<ret, exitPath>>
     ELSE /\ pc' = "validate"
          /\ UNCHANGED <<attempts, navCalls, reached, response, ret, exitPath,
                         inflight, lastNav>>
  /\ UNCHANGED <<copy, batch, i, results, browser, outcome, doc, live,
                 launchCalls, closeCalls, sleeps, waitOutcome, log>>

\* a rejected page.goto retried at once: the sleep only after a timeout
M_Navigate_NoSleepOnError ==
  /\ UNCHANGED <<attempted, waited, sleptMs, input, output, store, articles, api>>
  /\ pc = "nav"
  /\ IF response = Null /\ attempts < maxAttempts
     THEN /\ attempts' = attempts + 1
          /\ navCalls' = navCalls + 1
          /\ reached' = reached \cup {"nav"}
          /\ \E o \in NavOutcomes(url) :
               /\ lastNav' = o
               /\ \E k \in 0..inflight :
                    inflight' = k + (IF o = "timeout" THEN 1 ELSE 0)
               /\ IF o = "resolved"
                  THEN /\ \E r \in Responses : response' = r
                       /\ pc' = "validate"
                       /\ UNCHANGED <<ret, exitPath>>
                  ELSE /\ UNCHANGED response
                       /\ IF attempts' >= maxAttempts
                          THEN /\ ret' = Empty
                               /\ exitPath' = "navExhausted"
                               /\ pc' = "finally"
                          ELSE /\ pc' = IF o = "error" THEN "nav" ELSE "navsleep"
                               /\ UNCHANGED <<ret, exitPath>>
     ELSE /\ pc' = "validate"
          /\ UNCHANGED <<attempts, navCalls, reached, response, ret, exitPath,
                         inflight, lastNav>>
  /\ UNCHANGED <<copy, batch, i, results, browser, outcome, doc, live,
                 launchCalls, closeCalls, sleeps, waitOutcome, log>>

\* one turn of while (!response && attempts < maxAttempts).  Promise.race
\* settles with the timer but leaves the page.goto it lost to pending:
\* inflight counts the page.goto calls of this session that have not settled;
\* one of them may settle while a later attempt is awaited.
Navigate ==
  /\ UNCHANGED <<attempted, waited, sleptMs, input, output, store, articles, api>>
  /\ pc = "nav"
  /\ IF response = Null /\ attempts < maxAttempts
     THEN /\ attempts' = attempts + 1
          /\ navCalls' = navCalls + 1
          /\ reached' = reached \cup {"nav"}
          /\ \E o \in NavOutcomes(url) :
               /\ lastNav' = o
               /\ \E k \in 0..inflight :
                    inflight' = k + (IF o = "timeout" THEN 1 ELSE 0)
               /\ IF o = "resolved"
                  THEN /\ \E r \in Responses : response' = r
                       /\ pc' = "validate"
                       /\ UNCHANGED <<ret, exitPath>>
                  ELSE /\ UNCHANGED response
                       /\ IF attempts' >= maxAttempts
                          THEN /\ ret' = Empty
                               /\ exitPath' = "navExhausted"
                               /\ pc' = "finally"
                          ELSE /\ pc' = "navsleep"
                               /\ UNCHANGED <<ret, exitPath>>
     ELSE /\ pc' = "validate"
          /\ UNCHANGED <<attempts, navCalls, reached, response, ret, exitPath,
                         inflight, lastNav>>
  /\ UNCHANGED <<copy, batch, i, results, browser, outcome, doc, live,
                 launchCalls, closeCalls, sleeps, waitOutcome, log>>

\* await new Promise((resolve) => setTimeout(resolve, 2000))
RetrySleep ==
  /\ UNCHANGED <<attempted, waited, lastNav, input, output, store, articles, api>>
  /\ pc = "navsleep"
  /\ sleeps' = sleeps + 1
  /\ sleptMs' = sleptMs + RetryDelayMs
  /\ \E k \in 0..inflight : inflight' = k
  /\ pc' = "nav"
  /\ UNCHANGED <<copy, batch, i, results, browser, attempts, response, ret,
                 outcome, doc, live, launchCalls, closeCalls, navCalls,
                 waitOutcome, reached, exitPath, log>>

\* the check of the response after the loop
Validate ==
  /\ UNCHANGED <<attempted, inflight, waited, sleptMs, lastNav, input, output, store, articles, api>>
  /\ pc = "validate"
  /\ reached' = reached \cup {"validate"}
  /\ IF BadResponse(response)
     THEN /\ ret' = Empty
          /\ exitPath' = "badResponse"
          /\ pc' = "finally"
     ELSE /\ pc' = "wait"
          /\ UNCHANGED <<ret, exitPath>>
  /\ UNCHANGED <<copy, batch, i, results, browser, attempts, response, outcome,
                 doc, live, launchCalls, closeCalls, navCalls, sleeps,
                 waitOutcome, log>>

\* a wait that timed out treated as a failed fetch
M_WaitForContent_TimeoutFails ==
  /\ pc = "wait"
  /\ reached' = reached \cup {"wait"}
  /\ \E w \in WaitOutcomes :
       /\ waitOutcome' = w
       /\ IF w = "found"
          THEN /\ pc' = "content"
               /\ UNCHANGED <<ret, exitPath>>
          ELSE /\ ret' = Empty
               /\ exitPath' = "waitTimeout"
               /\ pc' = "finally"
  /\ UNCHANGED <<copy, batch, i, results, browser, attempts, response,
                 outcome, doc, live, launchCalls, closeCalls, navCalls, sleeps,
                 log, attempted, inflight,
                 waited, sleptMs, lastNav, input, output, store, articles, api>>

\* page.waitForSelector(...).catch(...) inside its own try block
WaitForContent ==
  /\ UNCHANGED <<attempted, inflight, waited, sleptMs, lastNav, input, output, store, articles, api>>
  /\ pc = "wait"
  /\ reached' = reached \cup {"wait"}
  /\ \E w \in WaitOutcomes : waitOutcome' = w
  /\ pc' = "content"
  /\ UNCHANGED <<copy, batch, i, results, browser, attempts, response, ret,
                 outcome, doc, live, launchCalls, closeCalls, navCalls, sleeps,
                 exitPath, log>>

\* const content = await page.content(); a rejection goes to the catch block
ReadContent ==
  /\ UNCHANGED <<attempted, inflight, waited, sleptMs, lastNav, input, output, store, articles, api>>
  /\ pc = "content"
  /\ reached' = reached \cup {"content"}
  /\ \E ok \in BOOLEAN :
       IF ok
       THEN /\ \E d \in SampleDocs : doc' = d
            /\ pc' = "extract"
            /\ UNCHANGED <<ret, exitPath>>
       ELSE /\ ret' = Empty
            /\ exitPath' = "contentError"
            /\ pc' = "finally"
            /\ UNCHANGED doc
  /\ UNCHANGED <<copy, batch, i, results, browser, attempts, response, outcome,
                 live, launchCalls, closeCalls, navCalls, sleeps, waitOutcome,
                 log>>

\* what each copy returns for each of the sample documents
ExtractTable ==
  [c \in {"esm", "cjs"} |-> [d \in SampleDocs |-> ExtractResult(c, d)]]

\* load, remove, the extraction chain, cleanContent and the final return
Extract ==
  /\ UNCHANGED <<attempted, inflight, waited, sleptMs, lastNav, input, output, store, articles, api>>
  /\ pc = "extract"
  /\ reached' = reached \cup {"extract"}
  /\ ret' = ExtractTable[copy][doc]
  /\ exitPath' = IF ret'.content = <<>> THEN "insufficient" ELSE "success"
  /\ pc' = "finally"
  /\ UNCHANGED <<copy, batch, i, results, browser, attempts, response, outcome,
                 doc, live, launchCalls, closeCalls, navCalls, sleeps,
                 waitOutcome, log>>

\* the session closed at the end of the try block instead of in a finally
M_Finally_CloseOnSuccessOnly ==
  /\ pc = "finally"
  /\ IF browser = "open" /\ ret.content # <<>>
     THEN /\ browser' = "closed"
          /\ closeCalls' = closeCalls + 1
          /\ live' = live - 1
          /\ \E ok \in BOOLEAN : outcome' = IF ok THEN "returned" ELSE "raised"
     ELSE /\ outcome' = "returned"
          /\ UNCHANGED <<browser, closeCalls, live>>
  /\ pc' = "receive"
  /\ UNCHANGED <<copy, batch, i, results, attempts, response, ret, doc,
                 launchCalls, navCalls, sleeps, waitOutcome, reached, exitPath,
                 log, attempted, inflight,
                 waited, sleptMs, lastNav, input, output, store, articles, api>>

\* finally { if (browser) await browser.close(); }: a rejection of close()
\* replaces the pending return
Finally ==
  /\ UNCHANGED <<attempted, waited, sleptMs, lastNav, input, output, store, articles, api>>
  /\ pc = "finally"
  /\ inflight' = 0
  /\ IF browser = "open"
     THEN /\ browser' = "closed"
          /\ closeCalls' = closeCalls + 1
          /\ live' = live - 1
          /\ \E ok \in BOOLEAN : outcome' = IF ok THEN "returned" ELSE "raised"
     ELSE /\ outcome' = "returned"
          /\ UNCHANGED <<browser, closeCalls, live>>
  /\ pc' = "receive"
  /\ UNCHANGED <<copy, batch, i, results, attempts, response, ret, doc,
                 launchCalls, navCalls, sleeps, waitOutcome, reached, exitPath,
                 log>>

\* how the call of scrapeContent ended, for the record of the run
Class == IF outcome = "raised" THEN "raised" ELSE exitPath

\* no try block around the call: an exception ends the batch
M_Receive_NoCatch ==
  /\ pc = "receive"
  /\ IF outcome = "returned" /\ ret.content # <<>>
     THEN results' = Append(results, Article(url, ret))
     ELSE UNCHANGED results
  /\ log' = Append(log, Class)
  /\ pc' = IF outcome = "raised" THEN "done"
           ELSE IF copy = "esm" THEN "delay" ELSE "loop"
  /\ UNCHANGED <<copy, batch, i, browser, attempts, response, ret, outcome,
                 doc, live, launchCalls, closeCalls, navCalls, sleeps,
                 waitOutcome, reached, exitPath, attempted, inflight,
                 waited, sleptMs, lastNav, input, output, store, articles, api>>

\* unshift instead of push
M_Receive_Unshift ==
  /\ pc = "receive"
  /\ IF outcome = "returned" /\ ret.content # <<>>
     THEN results' = <<Article(url, ret)>> \o results
     ELSE UNCHANGED results
  /\ log' = Append(log, Class)
  /\ pc' = IF copy = "esm" THEN "delay" ELSE "loop"
  /\ UNCHANGED <<copy, batch, i, browser, attempts, response, ret, outcome,
                 doc, live, launchCalls, closeCalls, navCalls, sleeps,
                 waitOutcome, reached, exitPath, attempted, inflight,
                 waited, sleptMs, lastNav, input, output, store, articles, api>>

\* the delay inside the try block: an exception skips it
M_Receive_DelayInTry ==
  /\ pc = "receive"
  /\ IF outcome = "returned" /\ ret.content # <<>>
     THEN results' = Append(results, Article(url, ret))
     ELSE UNCHANGED results
  /\ log' = Append(log, Class)
  /\ pc' = IF copy = "esm" /\ outcome = "returned" THEN "delay" ELSE "loop"
  /\ UNCHANGED <<copy, batch, i, browser, attempts, response, ret, outcome,
                 doc, live, launchCalls, closeCalls, navCalls, sleeps,
                 waitOutcome, reached, exitPath, attempted, inflight,
                 waited, sleptMs, lastNav, input, output, store, articles, api>>

\* scrapeMultipleUrls: the rest of the try block, or its catch block
Receive ==
  /\ UNCHANGED <<attempted, inflight, waited, sleptMs, lastNav, input, output, store, articles, api>>
  /\ pc = "receive"
  /\ IF outcome = "returned" /\ ret.content # <<>>
     THEN results' = Append(results, Article(url, ret))
     ELSE UNCHANGED results
  /\ log' = Append(log, Class)
  /\ pc' = IF copy = "esm" THEN "delay" ELSE "loop"
  /\ UNCHANGED <<copy, batch, i, browser, attempts, response, ret, outcome,
                 doc, live, launchCalls, closeCalls, navCalls, sleeps,
                 waitOutcome, reached, exitPath>>

\* a delay whose timer never fires
M_Delay_NeverResolves ==
  /\ pc = "delay"
  /\ UNCHANGED vars

\* esm: await new Promise((resolve) => setTimeout(resolve, 1000)), after the
\* try/catch of the loop body; waited is the time spent in these delays
Delay ==
  /\ UNCHANGED <<attempted, inflight, sleptMs, lastNav, input, output, store, articles, api>>
  /\ pc = "delay"
  /\ waited' = waited + PolitenessDelayMs
  /\ pc' = "loop"
  /\ UNCHANGED <<copy, batch, i, results, browser, attempts, response, ret,
                 outcome, doc, live, launchCalls, closeCalls, navCalls, sleeps,
                 waitOutcome, reached, exitPath, log>>

\* return scrapedResults
Return ==
  /\ UNCHANGED <<attempted, inflight, waited, sleptMs, lastNav, input, output, store, articles, api>>
  /\ pc = "loop"
  /\ i = Len(batch)
  /\ pc' = "done"
  /\ UNCHANGED <<copy, batch, i, results, browser, attempts, response, ret,
                 outcome, doc, live, launchCalls, closeCalls, navCalls, sleeps,
                 waitOutcome, reached, exitPath, log>>

Next ==
  \/ NextResult
  \/ BatchCheck
  \/ ScrapeContent
  \/ Launch
  \/ Setup
  \/ Navigate
  \/ RetrySleep
  \/ Validate
  \/ WaitForContent
  \/ ReadContent
  \/ Extract
  \/ Finally
  \/ Receive
  \/ Delay
  \/ Return

Spec == Init /\ [][Next]_vars

(***************************************************************************)
(* The Twilio messenger (src/src/messenger.js).  A message is a sequence   *)
(* of runs [ch, n]: n copies of the character ch.  Lengths count UTF-16    *)
(* code units, as String.length and String.substring do.                   *)
(***************************************************************************)
MAX_LENGTH == 1600
EllipsisLen == 3
\* "No EdTech news found."
NoNewsLen == 21
\* the header around the date: two phone emoji of 2 units each,
\* " *EDTECH UPDATE* ", a newline, "*" and "*\n\n"
HeaderFixedLen == 26
\* toLocaleDateString("en-US", long weekday and month) at its shortest
\* ("Friday, May 1, 2026") and longest ("Wednesday, September 30, 2026")
DateLens == {19, 29}

Rep(ch, n) == IF n = 0 THEN <<>> ELSE <<[ch |-> ch, n |-> n]>>

RECURSIVE MsgLen(_)
MsgLen(m) == IF m = <<>> THEN 0 ELSE Head(m).n + MsgLen(Tail(m))

\* m.substring(m.length - k): the wrong end of the message
RECURSIVE M_Substring0_Tail(_, _)
M_Substring0_Tail(m, k) ==
  IF MsgLen(m) <= k THEN m
  ELSE IF MsgLen(Tail(m)) >= k THEN M_Substring0_Tail(Tail(m), k)
  ELSE Rep(Head(m).ch, k - MsgLen(Tail(m))) \o Tail(m)

\* m.substring(0, k)
RECURSIVE Substring0(_, _)
Substring0(m, k) ==
  IF m = <<>> \/ k <= 0 THEN <<>>
  ELSE IF Head(m).n <= k THEN <<Head(m)>> \o Substring0(Tail(m), k - Head(m).n)
  ELSE Rep(Head(m).ch, k)

Ellipsis == Rep(".", EllipsisLen)

\* the four settings sendWhatsAppMessage requires
EnvNames == {"TWILIO_ACCOUNT_SID", "TWILIO_AUTH_TOKEN",
             "TWILIO_PHONE_NUMBER", "RECIPIENT_PHONE_NUMBER"}

\* what the process runs in: the settings that are set and not empty,
\* whether twilio(...) built a client when the module was loaded, and what
\* client.messages.create answers
Envs == [set : SUBSET EnvNames, client : BOOLEAN, create : {"ok", "error"}]

NullArticle == [kind |-> "null"]
Summarised(u, summary) == [kind |-> "article", url |-> u, summary |-> summary]

\* formatMessage(articles), on a day whose formatted date has dateLen units
formatMessage(arts, dateLen) ==
  IF arts = <<>>
  THEN [kind |-> "returned", val |-> Rep("n", NoNewsLen)]
  ELSE IF arts[1] = NullArticle
       THEN [kind |-> "raised", val |-> <<>>]
       ELSE [kind |-> "returned",
             val |-> Rep("h", HeaderFixedLen + dateLen) \o arts[1].summary
                     \o Rep("\n", 1)]

\* messageToSend
messageToSend(message) ==
  IF MsgLen(message) > MAX_LENGTH
  THEN Substring0(message, MAX_LENGTH - 3) \o Ellipsis
  ELSE message

NotSent(reason) == [status |-> "not_sent", reason |-> reason]
MessageResource == [status |-> "queued", sid |-> "SM"]
SendFailure == [error |-> "Failed to send WhatsApp message"]

\* sendWhatsAppMessage(message): what it answers, and the calls of
\* client.messages.create it made
sendWhatsAppMessage(message, env) ==
  IF env.set # EnvNames
  THEN [kind |-> "returned", val |-> NotSent("configuration_missing"),
        calls |-> <<>>]
  ELSE IF ~env.client
  THEN [kind |-> "returned", val |-> NotSent("client_not_initialized"),
        calls |-> <<>>]
  ELSE LET body == messageToSend(message)
       IN IF env.create = "ok"
          THEN [kind |-> "returned", val |-> MessageResource,
                calls |-> <<[body |-> body, accepted |-> TRUE]>>]
          ELSE [kind |-> "raised", val |-> SendFailure,
                calls |-> <<[body |-> body, accepted |-> FALSE]>>]

FormatOnly(message) == [status |-> "format_only", formattedMessage |-> message]

\* catch (sendError) { throw sendError }
M_sendArticleSummaries_Rethrow(arts, dateLen, env) ==
  LET fmt == formatMessage(arts, dateLen)
  IN IF fmt.kind = "raised"
     THEN [kind |-> "raised", val |-> [error |-> "format"],
           send |-> "none", calls |-> <<>>]
     ELSE LET sent == sendWhatsAppMessage(fmt.val, env)
          IN [kind |-> sent.kind, val |-> sent.val,
              send |-> sent.kind, calls |-> sent.calls]

\* sendArticleSummaries(articles): what it answers, how its call of
\* sendWhatsAppMessage ended, and the calls of client.messages.create
sendArticleSummaries(arts, dateLen, env) ==
  LET fmt == formatMessage(arts, dateLen)
  IN IF fmt.kind = "raised"
     THEN [kind |-> "raised", val |-> [error |-> "format"],
           send |-> "none", calls |-> <<>>]
     ELSE LET sent == sendWhatsAppMessage(fmt.val, env)
          IN IF sent.kind = "raised"
             THEN [kind |-> "returned", val |-> FormatOnly(fmt.val),
                   send |-> "raised", calls |-> sent.calls]
             ELSE [kind |-> "returned", val |-> sent.val,
                   send |-> "returned", calls |-> sent.calls]

\* the character at position p of m, counted from 1
RECURSIVE CharAt(_, _)
CharAt(m, p) ==
  IF Head(m).n >= p THEN Head(m).ch ELSE CharAt(Tail(m), p - Head(m).n)

\* messages around the limit: a run of "a" then a run of "b", the change of
\* character falling around the place where a long message is cut
LimitMessages ==
  { Rep("a", p) \o Rep("b", len - p) :
      len \in (MAX_LENGTH - MaxOver)..(MAX_LENGTH + MaxOver),
      p \in {0} \cup ((MAX_LENGTH - 3 - MaxOver)..(MAX_LENGTH - 3 + MaxOver)) }

SampleMessages == LimitMessages \cup {<<>>, Rep("a", 1)}

\* summaries that bring the formatted message around the limit
SampleSummaries ==
  { Rep("a", MAX_LENGTH - HeaderFixedLen - d - 1 + over) :
      d \in DateLens, over \in (0 - MaxOver)..MaxOver } \cup {Rep("a", 40)}

SampleArticleLists ==
  {<<>>, <<NullArticle>>}
    \cup { <<Summarised(UrlArticle, s)>> : s \in SampleSummaries }
    \cup { <<Summarised(UrlArticle, s), Summarised(UrlStory, s)>> :
             s \in SampleSummaries }

SendInputs ==
  [kind : {"message"}, message : SampleMessages, env : Envs]
    \cup [kind : {"articles"}, articles : SampleArticleLists,
          dateLen : DateLens, env : Envs]

(***************************************************************************)
(* The functions applied on their own: one call on an argument drawn from  *)
(* a set of samples, with no fetch going on.                               *)
(***************************************************************************)
Standalone(inputs) ==
  /\ copy \in {"esm", "cjs"}
  /\ batch = <<>>
  /\ i = 0
  /\ pc = "apply"
  /\ results = <<>>
  /\ browser = "null"
  /\ attempts = 0
  /\ response = Null
  /\ ret = NoRet
  /\ outcome = "none"
  /\ doc = NoDoc
  /\ live = 0
  /\ launchCalls = 0
  /\ closeCalls = 0
  /\ navCalls = 0
  /\ sleeps = 0
  /\ waitOutcome = "none"
  /\ reached = {}
  /\ exitPath = "none"
  /\ log = <<>>
  /\ attempted = <<>>
  /\ inflight = 0
  /\ waited = 0
  /\ sleptMs = 0
  /\ lastNav = "none"
  /\ input \in inputs
  /\ output = NoOutput
  /\ store = {}
  /\ articles = <<>>
  /\ api = <<>>

fetchVars == <<copy, batch, i, results, browser, attempts, response, ret,
               outcome, doc, live, launchCalls, closeCalls, navCalls, sleeps,
               waitOutcome, reached, exitPath, log, attempted, inflight,
               waited, sleptMs, lastNav, store, articles, api>>

\* isHomepage(url)
Classify ==
  /\ pc = "apply"
  /\ output' = isHomepageCall(input)
  /\ pc' = "applied"
  /\ UNCHANGED <<fetchVars, input>>

\* the extraction chain of scrapeContent on a loaded document
ExtractText ==
  /\ pc = "apply"
  /\ output' = [kind |-> "returned",
                stages |-> IF copy = "esm" THEN ExtractStagesEsm(input)
                           ELSE [text |-> ExtractCjs(input)],
                result |-> ExtractResult(copy, input)]
  /\ pc' = "applied"
  /\ UNCHANGED <<fetchVars, input>>

ExtractInit == Standalone(ExtractDocs)

ExtractNext == ExtractText

SpecExtract == ExtractInit /\ [][ExtractNext]_vars

\* cleanContent(text)
Clean ==
  /\ pc = "apply"
  /\ output' = [kind |-> "returned", once |-> cleanContentChars(copy, input)]
  /\ pc' = "applied"
  /\ UNCHANGED <<fetchVars, input>>

\* cleanContent(cleanContent(text))
CleanAgain ==
  /\ pc = "applied"
  /\ output' = [kind |-> "returned", once |-> output.once,
                twice |-> cleanContentChars(copy, output.once)]
  /\ pc' = "again"
  /\ UNCHANGED <<fetchVars, input>>

CleanInit == Standalone(StringsUpTo(MaxTextLen))

CleanNext == Clean \/ CleanAgain

SpecClean == CleanInit /\ [][CleanNext]_vars

\* extractPublicationDate($)
ExtractDate ==
  /\ pc = "apply"
  /\ output' = IF copy = "esm" THEN extractPublicationDateEsm(input)
               ELSE extractPublicationDateCjs(input)
  /\ pc' = "applied"
  /\ UNCHANGED <<fetchVars, input>>

DateInit == Standalone(DateDocs)

DateNext == ExtractDate

SpecDate == DateInit /\ [][DateNext]_vars

ClassifyInit == Standalone(ClassifyUrls)

ClassifyNext == Classify

SpecClassify == ClassifyInit /\ [][ClassifyNext]_vars

\* sendWhatsAppMessage(message)
SendMessage ==
  /\ pc = "apply"
  /\ input.kind = "message"
  /\ output' = sendWhatsAppMessage(input.message, input.env)
  /\ pc' = "applied"
  /\ UNCHANGED <<fetchVars, input>>

\* sendArticleSummaries(articles)
SendSummaries ==
  /\ pc = "apply"
  /\ input.kind = "articles"
  /\ output' = sendArticleSummaries(input.articles, input.dateLen, input.env)
  /\ pc' = "applied"
  /\ UNCHANGED <<fetchVars, input>>

SendInit == Standalone(SendInputs) /\ copy = "esm"

SendNext == SendMessage \/ SendSummaries

SpecSend == SendInit /\ [][SendNext]_vars

(***************************************************************************)
(* main (src/src/index.js with the messenger of src/src, "esm";            *)
(* src/unnamed/part_001 with whatsappWebService, "cjs").  search.js,       *)
(* summarizer.js and whatsappWebService.js are not part of the sources:    *)
(* the processed-URL store is a set of URLs that markUrlAsProcessed adds   *)
(* to and isUrlProcessedBefore reads, processArticles answers some of the  *)
(* articles it was given, each with the consolidated summary, and every    *)
(* call of a collaborator may reject.  scrapeMultipleUrls appears by what  *)
(* it returns: the candidates that are not skipped and whose page renders  *)
(* to a non-empty content, in order.                                       *)
(***************************************************************************)
MainUrls == {UrlArticle, UrlStory, UrlRoot, UrlMalformed}

\* what the fetch of a URL meets: no page (launch, navigation or status
\* failure), or a rendered document
Unreachable == [reach |-> FALSE, doc |-> NoDoc]
Rendered(d) == [reach |-> TRUE, doc |-> d]
Pages == {Unreachable, Rendered(DocContainer), Rendered(DocThin)}

PageMaps ==
  { [u \in MainUrls |-> IF u \in {UrlArticle, UrlStory} THEN f[u] ELSE Unreachable] :
      f \in [{UrlArticle, UrlStory} -> Pages] }

\* the candidate gives an article
Yields(c, u, page) ==
  /\ ~isHomepage(u)
  /\ page.reach
  /\ ExtractTable[c][page.doc].content # <<>>

\* scrapeMultipleUrls(newResults)
RECURSIVE ScrapedResults(_, _, _)
ScrapedResults(c, list, pages) ==
  IF list = <<>> THEN <<>>
  ELSE LET u == Head(list)
           rest == ScrapedResults(c, Tail(list), pages)
       IN IF Yields(c, u, pages[u])
          THEN <<Article(u, ExtractTable[c][pages[u].doc])>> \o rest
          ELSE rest

\* the lists made of some members of a list, in order
RECURSIVE SubSeqs(_)
SubSeqs(list) ==
  IF list = <<>> THEN {<<>>}
  ELSE LET rest == SubSeqs(Tail(list))
       IN rest \cup { <<Head(list)>> \o r : r \in rest }

SummaryText == Rep("a", 40)

\* what processArticles(scrapedResults) may answer
processArticles(scraped) ==
  { [k \in 1..Len(l) |-> Summarised(l[k].url, SummaryText)] : l \in SubSeqs(scraped) }

\* the header of part_001:118 around the date
CjsHeaderFixedLen == 30

\* settings of the messenger main runs with
MainEnvs ==
  { [set |-> EnvNames, client |-> TRUE, create |-> "ok"],
    [set |-> EnvNames, client |-> TRUE, create |-> "error"],
    [set |-> EnvNames, client |-> FALSE, create |-> "ok"],
    [set |-> EnvNames \ {"RECIPIENT_PHONE_NUMBER"}, client |-> TRUE, create |-> "ok"] }

MainInputs ==
  [kind : {"main"},
   searchResults : UNION { [1..n -> MainUrls] : n \in 0..MaxResults },
   pages : PageMaps,
   processed : SUBSET {UrlArticle, UrlStory}]

mainFrame == <<browser, attempts, response, ret, outcome, doc, live,
               launchCalls, closeCalls, navCalls, sleeps, waitOutcome,
               reached, exitPath, log, attempted, inflight, waited, sleptMs,
               lastNav>>

MainInit ==
  /\ copy \in {"esm", "cjs"}
  /\ input \in MainInputs
  /\ store = input.processed
  /\ pc = IF copy = "cjs" THEN "initialize" ELSE "search"
  /\ batch = <<>>
  /\ i = 0
  /\ results = <<>>
  /\ articles = <<>>
  /\ api = <<>>
  /\ output = NoOutput
  /\ browser = "null"
  /\ attempts = 0
  /\ response = Null
  /\ ret = NoRet
  /\ outcome = "none"
  /\ doc = NoDoc
  /\ live = 0
  /\ launchCalls = 0
  /\ closeCalls = 0
  /\ navCalls = 0
  /\ sleeps = 0
  /\ waitOutcome = "none"
  /\ reached = {}
  /\ exitPath = "none"
  /\ log = <<>>
  /\ attempted = <<>>
  /\ inflight = 0
  /\ waited = 0
  /\ sleptMs = 0
  /\ lastNav = "none"

\* return from main at a stage, before the end
Returns(stage) ==
  /\ pc' = "exit"
  /\ output' = [kind |-> "returned", at |-> stage]

\* catch (error): index.js rethrows, part_001 calls process.exit(1)
Fails(stage) ==
  /\ pc' = "exit"
  /\ output' = [kind |-> IF copy = "esm" THEN "raised" ELSE "exit1", at |-> stage]

\* part_001: await whatsappWebService.initialize()
Initialize ==
  /\ pc = "initialize"
  /\ \E ok \in BOOLEAN :
       IF ok THEN pc' = "search" /\ UNCHANGED output
       ELSE Fails("initialize")
  /\ UNCHANGED <<mainFrame, copy, input, store, batch, i, results, articles, api>>

\* fetchSearchResults and if (!searchResults.length) return
Search ==
  /\ pc = "search"
  /\ \E ok \in BOOLEAN :
       IF ~ok THEN Fails("search")
       ELSE IF input.searchResults = <<>> THEN Returns("search")
       ELSE pc' = "filter" /\ UNCHANGED output
  /\ UNCHANGED <<mainFrame, copy, input, store, batch, i, results, articles, api>>

\* the loop over isUrlProcessedBefore and if (!newResults.length) return
FilterNew ==
  /\ pc = "filter"
  /\ \E ok \in BOOLEAN :
       IF ~ok THEN Fails("filter") /\ UNCHANGED batch
       ELSE LET newResults == SelectSeq(input.searchResults, LAMBDA u : u \notin store)
            IN /\ batch' = newResults
               /\ IF newResults = <<>> THEN Returns("filter")
                  ELSE pc' = "scrape" /\ UNCHANGED output
  /\ UNCHANGED <<mainFrame, copy, input, store, i, results, articles, api>>

\* scrapeMultipleUrls(newResults) and if (!scrapedResults.length) return
ScrapeAll ==
  /\ pc = "scrape"
  /\ results' = ScrapedResults(copy, batch, input.pages)
  /\ IF results' = <<>> THEN Returns("scrape")
     ELSE pc' = "summarize" /\ UNCHANGED output
  /\ UNCHANGED <<mainFrame, copy, input, store, batch, i, articles, api>>

\* processArticles(scrapedResults) and if (!processedArticles.length) return
Summarize ==
  /\ pc = "summarize"
  /\ \/ Fails("summarize") /\ UNCHANGED articles
     \/ \E answer \in processArticles(results) :
          /\ articles' = answer
          /\ IF answer = <<>> THEN Returns("summarize")
             ELSE pc' = "mark" /\ UNCHANGED output
  /\ UNCHANGED <<mainFrame, copy, input, store, batch, i, results, api>>

\* for (const result of batch): every candidate that was not yet processed
M_MarkTargets_Candidates == batch

\* index.js: for (const article of processedArticles) ... article.url
\* part_001: for (const result of scrapedResults) ... result.url
MarkTargets ==
  IF copy = "esm" THEN [k \in 1..Len(articles) |-> articles[k].url]
  ELSE [k \in 1..Len(results) |-> results[k].url]

\* await markUrlAsProcessed(url), once per turn of the loop
Mark ==
  /\ pc = "mark"
  /\ i < Len(MarkTargets)
  /\ \E ok \in BOOLEAN :
       IF ok THEN /\ store' = store \cup {MarkTargets[i + 1]}
                  /\ i' = i + 1
                  /\ UNCHANGED <<pc, output>>
       ELSE Fails("mark") /\ UNCHANGED <<store, i>>
  /\ UNCHANGED <<mainFrame, copy, input, batch, results, articles, api>>

\* index.js: await sendArticleSummaries(processedArticles)
SendTwilio ==
  /\ pc = "mark"
  /\ copy = "esm"
  /\ i = Len(MarkTargets)
  /\ \E env \in MainEnvs, d \in DateLens :
       LET sent == sendArticleSummaries(articles, d, env)
       IN /\ api' = api \o sent.calls
          /\ IF sent.kind = "raised" THEN Fails("send")
             ELSE /\ pc' = "exit"
                  /\ output' = [kind |-> "returned", at |-> "end"]
  /\ UNCHANGED <<mainFrame, copy, input, store, batch, i, results, articles>>

\* part_001: the message, if (!recipientNumber) return, and
\* await whatsappWebService.sendMessage(recipientNumber, message)
SendWeb ==
  /\ pc = "mark"
  /\ copy = "cjs"
  /\ i = Len(MarkTargets)
  /\ \E recipient \in BOOLEAN, ok \in BOOLEAN, d \in DateLens :
       LET message == Rep("h", CjsHeaderFixedLen + d) \o articles[1].summary
       IN IF ~recipient
          THEN Returns("send") /\ UNCHANGED api
          ELSE /\ api' = Append(api, [body |-> message, accepted |-> ok])
               /\ IF ok THEN /\ pc' = "exit"
                             /\ output' = [kind |-> "exit0", at |-> "end"]
                  ELSE Fails("send")
  /\ UNCHANGED <<mainFrame, copy, input, store, batch, i, results, articles>>

MainNext ==
  \/ Initialize
  \/ Search
  \/ FilterNew
  \/ ScrapeAll
  \/ Summarize
  \/ Mark
  \/ SendTwilio
  \/ SendWeb

SpecMain == MainInit /\ [][MainNext]_vars

(***************************************************************************)
(* Termination.  The event loop resumes an await once its promise settles. *)
(* The awaits the code bounds settle: puppeteer.launch has timeout 60000,  *)
(* page.goto is raced against a 30000 ms timer, page.waitForSelector has   *)
(* timeout 5000, the two sleeps are timers.  The code passes no timeout to *)
(* browser.newPage and the page setup calls, to page.content() or to       *)
(* browser.close(): nothing in the code makes them settle.                 *)
(***************************************************************************)
UntimedCall ==
  \/ pc = "setup"
  \/ pc = "content"
  \/ pc = "finally" /\ browser = "open"

FairInit == StartWith(FairBatches)

Fairness ==
  /\ WF_vars(NextResult)
  /\ WF_vars(BatchCheck)
  /\ WF_vars(ScrapeContent)
  /\ WF_vars(Launch)
  /\ WF_vars(Navigate)
  /\ WF_vars(RetrySleep)
  /\ WF_vars(Validate)
  /\ WF_vars(WaitForContent)
  /\ WF_vars(Extract)
  /\ WF_vars(Finally /\ browser # "open")
  /\ WF_vars(Receive)
  /\ WF_vars(Delay)
  /\ WF_vars(Return)

FairSpec == FairInit /\ [][Next]_vars /\ Fairness

(***************************************************************************)
(* Properties                                                              *)
(***************************************************************************)
\* the call of scrapeContent for the current candidate has settled
Settled == outcome # "none"

Launched == browser # "null"

\* C1: a session that was launched is closed exactly once before
\* scrapeContent settles, on every exit path, and close is never called when
\* no session was acquired (a skipped URL or a failed launch).
C1_ClosedExactlyOnce ==
  /\ closeCalls <= 1
  /\ closeCalls = 1 => Launched
  /\ Settled => closeCalls = (IF Launched THEN 1 ELSE 0)
  /\ exitPath \in {"skipped", "launchError"} => ~Launched /\ closeCalls = 0

C1_Witness ==
  /\ Settled
  /\ exitPath = "contentError"
  /\ Launched
  /\ closeCalls = 1

\* C2: at most one rendering session is alive at any moment of a batch, and
\* none is alive when the next one is launched.
C2_OneSessionAlive ==
  /\ live \in {0, 1}
  /\ pc = "launch" => live = 0
  /\ live = 1 => browser = "open"

C2_Witness ==
  /\ i = 2
  /\ log[1] = "success"
  /\ live = 1

\* C3: once the session is launched and set up, scrapeContent makes between
\* 1 and 3 navigation attempts, and when all 3 fail it returns an
\* empty-content result without raising.
C3_AttemptsThenEmptyResult ==
  (Settled /\ "setup" \in reached) =>
     /\ navCalls \in 1..3
     /\ exitPath = "navExhausted" =>
          navCalls = 3 /\ outcome = "returned" /\ ret = Empty

\* C4: every candidate is attempted exactly once, in input order, whatever
\* the earlier candidates did.
C4_EveryCandidateAttempted ==
  /\ attempted = [k \in 1..i |-> k]
  /\ i <= Len(batch)
  /\ pc = "done" => attempted = [k \in 1..Len(batch) |-> k]

C4_Witness ==
  /\ pc = "done"
  /\ Len(batch) = 2
  /\ log = <<"raised", "success">>

RECURSIVE SuccessUrls(_)
SuccessUrls(k) ==
  IF k = 0 THEN <<>>
  ELSE IF log[k] = "success"
       THEN Append(SuccessUrls(k - 1), batch[k])
       ELSE SuccessUrls(k - 1)

\* C5: the articles returned are the candidates whose fetch produced
\* non-empty content, each with its own url, in input order.
C5_ResultsAreTheSuccesses ==
  /\ [k \in 1..Len(results) |-> results[k].url] = SuccessUrls(Len(log))
  /\ \A k \in 1..Len(results) : results[k].content # <<>>
  /\ pc = "done" => Len(log) = Len(batch)

C5_Witness ==
  /\ pc = "done"
  /\ batch = ExampleBatch
  /\ log = <<"skipped", "success", "skipped", "navExhausted", "success">>
  /\ Len(results) = 2
  /\ results[1].url = UrlArticle
  /\ results[2].url = UrlStory

\* C6: in the ES-module copy every article has a content of at least 100
\* characters in normal form, and a page whose cleaned text is shorter than
\* 100 characters gives the empty result and no article.
C6_ContentAboveFloor ==
  copy = "esm" =>
    /\ \A k \in 1..Len(results) :
         /\ TextLen(results[k].content) >= 100
         /\ Trim(CollapseWs(results[k].content)) = results[k].content
    /\ ("extract" \in reached /\ pc # "extract"
        /\ TextLen(Trim(CollapseWs(ExtractEsm(doc)))) < 100) =>
          /\ ret = Empty
          /\ exitPath = "insufficient"
          /\ (pc \in {"delay", "loop", "done"} => log[Len(log)] # "success")

C6_Witness ==
  /\ copy = "esm"
  /\ doc = DocSparse
  /\ pc = "delay"
  /\ ret = Empty
  /\ Len(results) = 1

\* C7: a URL that isHomepage classifies as skippable gets an empty result
\* without raising, and no session is launched and no navigation issued for
\* it.
C7_SkipCostsNothing ==
  (i >= 1 /\ isHomepage(batch[i])) =>
    /\ launchCalls = 0
    /\ navCalls = 0
    /\ ~Launched
    /\ Settled => outcome = "returned" /\ ret = Empty
    /\ pc \in {"delay", "loop", "done"} => log[Len(log)] = "skipped"

C7_Witness ==
  /\ copy = "esm"
  /\ pc = "receive"
  /\ exitPath = "skipped"
  /\ batch[i] = UrlAbout

\* C8: with no response, or a status that is present and not 200, the call
\* gives the empty result and reaches neither the content wait nor the
\* extraction.
C8_BadResponseStops ==
  LET bad == response = Null \/ (response.kind = "status" /\ response.status # 200)
  IN /\ (reached \cap {"wait", "content", "extract"} # {}) => ~bad
     /\ ("validate" \in reached /\ bad) =>
          /\ ret = Empty
          /\ exitPath = "badResponse"
          /\ pc \in {"finally", "receive", "delay", "loop", "done"}

C8_Witness ==
  /\ exitPath = "badResponse"
  /\ response = [kind |-> "status", status |-> 404]
  /\ outcome = "returned"
  /\ ret = Empty

\* C9: whatever the content wait answers, the next step reads the rendered
\* markup: the wait never ends the fetch nor sets its result, and a call that
\* reached the wait has read the markup and, unless that read raised, run
\* the extraction.
C9_WaitNeverFails ==
  /\ [][pc = "wait" => (pc' = "content" /\ ret' = ret /\ exitPath' = exitPath)]_vars
  /\ []((Settled /\ "wait" \in reached) =>
           /\ "content" \in reached
           /\ exitPath # "contentError" => "extract" \in reached)

C9_Witness ==
  /\ waitOutcome = "timeout"
  /\ "extract" \in reached
  /\ exitPath = "success"
  /\ Settled

\* C10: a failed launch is not retried: one launch attempt, no navigation,
\* and an empty result without raising.
C10_LaunchNotRetried ==
  /\ launchCalls <= 1
  /\ exitPath = "launchError" =>
       /\ launchCalls = 1
       /\ navCalls = 0
       /\ closeCalls = 0
       /\ ret = Empty
       /\ Settled => outcome = "returned"

C10_Witness ==
  /\ exitPath = "launchError"
  /\ outcome = "returned"
  /\ launchCalls = 1

\* C11: scrapeContent never raises to its caller: every failure of every
\* stage, the release of the session included, ends in a returned
\* empty-content result.
C11_NeverRaises ==
  /\ outcome # "raised"
  /\ (Settled /\ exitPath # "success") => (outcome = "returned" /\ ret = Empty)

\* C12: a navigation that lost the race against the timer is aborted: when
\* the next attempt's page.goto starts, no page.goto of an earlier attempt is
\* still in flight on the session.
C12_OneNavigationOutstanding ==
  (pc = "nav" /\ response = Null /\ attempts < maxAttempts) => inflight = 0

C14_DelayAfterEveryAttempt ==
  copy = "esm" =>
    /\ pc \in {"loop", "done"} => waited = i * 1000
    /\ pc \notin {"loop", "done"} => waited = (i - 1) * 1000

C14_Witness ==
  /\ copy = "esm"
  /\ pc = "call"
  /\ i = 5
  /\ log[1] = "skipped"
  /\ log[2] = "success"
  /\ log[4] = "raised"
  /\ waited = 4000

Applied == pc = "applied"

\* C15: isHomepage answers skippable for a URL whose path is the root or one
\* of /index.html, /home, /home/, /main, /main/, and not skippable for the
\* article path /2025/06/19/article-slug/.
C15_IndexPaths ==
  {<<"/">>,
   <<"/","i","n","d","e","x",".","h","t","m","l">>,
   <<"/","h","o","m","e">>,
   <<"/","h","o","m","e","/">>,
   <<"/","m","a","i","n">>,
   <<"/","m","a","i","n","/">>}

C15_HomepagesSkipped ==
  (Applied /\ input.valid) =>
    /\ (input.path = <<>> \/ input.path \in C15_IndexPaths)
         => (output.kind = "returned" /\ output.val = TRUE)
    /\ input.path = <<"/","2","0","2","5","/","0","6","/","1","9","/","a","r","t","i","c","l","e","-","s","l","u","g","/">>
         => (output.kind = "returned" /\ output.val = FALSE)

C15_Witness ==
  /\ Applied
  /\ input.valid
  /\ input.path = <<"/","m","a","i","n","/">>
  /\ output.val = TRUE

\* C16: isHomepage answers skippable for a URL whose whole path is one of
\* the eleven non-article names, with or without one trailing slash, in any
\* letter case; a path that only starts with such a name is not skipped.
C16_Names ==
  {<<"a","b","o","u","t">>,
   <<"c","o","n","t","a","c","t">>,
   <<"f","a","q">>,
   <<"h","e","l","p">>,
   <<"s","u","p","p","o","r","t">>,
   <<"t","e","r","m","s">>,
   <<"p","r","i","v","a","c","y">>,
   <<"l","o","g","i","n">>,
   <<"s","i","g","n","u","p">>,
   <<"r","e","g","i","s","t","e","r">>,
   <<"a","c","c","o","u","n","t">>}

C16_IsPrefix(a, b) == Len(a) <= Len(b) /\ SubSeq(b, 1, Len(a)) = a

C16_NonArticlePagesSkipped ==
  (Applied /\ input.valid) =>
    LET lower == ToLower(input.path)
        whole == \E nm \in C16_Names :
                   lower = <<"/">> \o nm \/ lower = <<"/">> \o nm \o <<"/">>
        starts == \E nm \in C16_Names : C16_IsPrefix(<<"/">> \o nm, lower)
    IN /\ whole => (output.kind = "returned" /\ output.val = TRUE)
       /\ (starts /\ ~whole) => (output.kind = "returned" /\ output.val = FALSE)

C16_Witness ==
  /\ Applied
  /\ input.valid
  /\ input.path = <<"/","P","R","I","V","A","C","Y","/">>
  /\ output.val = TRUE

\* C17: on a string that is no URL isHomepage does not raise and answers
\* not skippable.
C17_MalformedNotSkipped ==
  (Applied /\ ~input.valid) => (output.kind = "returned" /\ output.val = FALSE)

C17_Witness ==
  /\ Applied
  /\ ~input.valid
  /\ input.path = <<"/","a","b","o","u","t">>
  /\ output = [kind |-> "returned", val |-> FALSE]

\* the selectors of the list whose trimmed text is longer than 200 characters
C18_Clears(d) ==
  { k \in 1..Len(contentSelectors) :
      /\ d.sel[contentSelectors[k]] # <<>>
      /\ TextLen(Trim(CatAll(d.sel[contentSelectors[k]]))) > 200 }

\* C18: the container strategy takes the text of the first selector, in the
\* listed order, whose text is longer than 200 characters, and no later one;
\* a document whose only container has 250 characters and whose paragraphs
\* total 50 yields the container's text.
C18_FirstContainerWins ==
  (Applied /\ copy = "esm") =>
    /\ C18_Clears(input) = {} => output.stages.container = <<>>
    /\ C18_Clears(input) # {} =>
         LET first == CHOOSE k \in C18_Clears(input) :
                        \A j \in C18_Clears(input) : k <= j
             text == Trim(CatAll(input.sel[contentSelectors[first]]))
         IN /\ output.stages.container = text
            /\ output.stages.text = text
    /\ input = DocContainer => output.stages.text = <<W(250)>>

C18_Witness ==
  /\ Applied
  /\ copy = "esm"
  /\ input.sel["article"] = << <<W(200)>>, <<S(1), W(99), S(1)>> >>
  /\ input.sel[".body"] = << <<W(200)>>, <<W(200)>> >>
  /\ output.stages.container = <<W(200), S(1), W(99)>>

\* what the container strategy leaves in extractedText
C19_ContainerYield(d) ==
  IF C18_Clears(d) = {} THEN <<>>
  ELSE Trim(CatAll(d.sel[contentSelectors[
         CHOOSE k \in C18_Clears(d) : \A j \in C18_Clears(d) : k <= j]]))

\* the trimmed texts of the paragraphs with one space between neighbours
RECURSIVE C19_Joined(_)
C19_Joined(ps) ==
  IF ps = <<>> THEN <<>>
  ELSE IF Len(ps) = 1 THEN Trim(ps[1])
  ELSE Cat(Cat(Trim(ps[1]), <<S(1)>>), C19_Joined(Tail(ps)))

\* C19: the paragraph strategy runs exactly when the container strategy left
\* no text of 200 characters or more, and extractedText is then the text of
\* all paragraph elements joined by spaces; no container above 200 and
\* paragraphs of 300 in all yield the joined paragraphs.
C19_ParagraphsWhenNoContainer ==
  (Applied /\ copy = "esm") =>
    LET yield == C19_ContainerYield(input)
        runs == ~(yield # <<>> /\ TextLen(yield) >= 200)
    IN /\ output.stages.ranParagraphs = runs
       /\ runs => output.stages.paragraphs = Trim(C19_Joined(input.paras))
       /\ ~runs => output.stages.paragraphs = yield
       /\ input = DocParagraphs => output.stages.text = <<W(149), S(1), W(150)>>

C19_Witness ==
  /\ Applied
  /\ copy = "esm"
  /\ input.sel["article"] = << <<W(200)>> >>
  /\ input.sel[".body"] = << <<S(1), W(99), S(1)>>, <<S(1), W(99), S(1)>> >>
  /\ input.paras = << <<W(149), S(4)>>, <<S(2), W(50)>> >>
  /\ output.stages.ranParagraphs
  /\ output.stages.text = <<W(149), S(1), W(50)>>

\* C20: cleanContent is idempotent in both copies: cleaning a cleaned text
\* changes nothing.
C20_CleanIdempotent ==
  pc = "again" => output.twice = output.once

C20_Witness ==
  /\ pc = "again"
  /\ copy = "cjs"
  /\ input = <<"a", "\r", "\n", "a">>
  /\ output.once = <<"a", " ", "a">>
  /\ output.twice = <<"a", " ", "a">>

\* the characters of a string that are no whitespace, in their order
RECURSIVE C21_Letters(_)
C21_Letters(str) ==
  IF str = <<>> THEN <<>>
  ELSE IF Head(str) \in {" ", "\n", "\t", "\r", "nbsp"}
       THEN C21_Letters(Tail(str))
       ELSE <<Head(str)>> \o C21_Letters(Tail(str))

\* the letters of str from position k on, with one space before a letter
\* that follows whitespace and an earlier letter
RECURSIVE C21_Spaced(_, _, _)
C21_Spaced(str, k, seen) ==
  IF k > Len(str) THEN <<>>
  ELSE IF str[k] \in {" ", "\n", "\t", "\r", "nbsp"}
       THEN C21_Spaced(str, k + 1, seen)
       ELSE (IF seen /\ k > 1 /\ str[k - 1] \in {" ", "\n", "\t", "\r", "nbsp"}
             THEN <<" ">> ELSE <<>>)
            \o <<str[k]>> \o C21_Spaced(str, k + 1, TRUE)

\* C21: the result of cleanContent has no newline, tab or no-break space,
\* no two spaces in a row and no whitespace at either end, and its other
\* characters are those of the input in the same order, with one space for
\* every whitespace run between them.
C21_CleanNormalForm ==
  pc \in {"applied", "again"} =>
    LET out == output.once
    IN /\ \A k \in 1..Len(out) : out[k] \notin {"\n", "\t", "\r", "nbsp"}
       /\ \A k \in 1..(Len(out) - 1) : ~(out[k] = " " /\ out[k + 1] = " ")
       /\ out # <<>> => (out[1] # " " /\ out[Len(out)] # " ")
       /\ C21_Letters(out) = C21_Letters(input)
       /\ out = C21_Spaced(input, 1, FALSE)

C21_Witness ==
  /\ pc = "applied"
  /\ copy = "esm"
  /\ input = <<"\t", "b", "nbsp", "a">>
  /\ output.once = <<"b", " ", "a">>

\* C22: in the ES-module copy extractPublicationDate returns the first
\* non-empty value in the order of its selectors, trimmed: none only when no
\* source has a value, never the empty string, and not none when the
\* article:published_time meta has a content.
C22_FirstDateTrimmed ==
  (Applied /\ copy = "esm") =>
    /\ output.kind = "returned"
    /\ output.val.kind = "string" => output.val.text # <<>>
    /\ output.val.kind = "null" =>
         \A k \in 1..Len(dateSelectors) :
           LET src == input[dateSelectors[k]]
           IN ~src.present \/ (/\ src.content.raw = <<>>
                               /\ src.datetime.raw = <<>>
                               /\ src.text.raw = <<>>)
    /\ input["meta[property=article:published_time]"].content = IsoValue
         => output.val = [kind |-> "string", text |-> <<W(20)>>]

\* C23: extractPublicationDate does not raise in either copy; for a date
\* string that cannot be parsed it returns that string (trimmed) or none.
C23_DateNeverRaises ==
  Applied =>
    /\ output.kind = "returned"
    /\ copy = "cjs" =>
         (DateStrCjs(input).day = "invalid" => output.val = NullDate)
    /\ copy = "esm" =>
         (output.val.kind = "string" =>
            \E k \in 1..Len(dateSelectors) :
              LET src == input[dateSelectors[k]]
              IN \E v \in {src.content, src.datetime, src.text} :
                   src.present /\ output.val.text = Trim(v.raw))

C23_Witness ==
  /\ Applied
  /\ copy = "cjs"
  /\ input["meta[property=article:published_time]"].content = GarbageValue
  /\ output = [kind |-> "returned", val |-> NullDate]

\* C24: exactly one sleep of 2 s lies between two consecutive navigation
\* attempts of a call and none follows the last attempt: before an attempt
\* there have been as many sleeps as attempts, after one there is one sleep
\* less than attempts, and a call sleeps at most twice.
C24_OneSleepBetweenAttempts ==
  /\ sleeps <= 2
  /\ sleptMs = sleeps * 2000
  /\ pc = "nav" => sleeps = navCalls
  /\ (pc # "nav" /\ navCalls >= 1) => sleeps = navCalls - 1
  /\ pc = "navsleep" => navCalls < 3
  /\ exitPath = "navExhausted" => (navCalls = 3 /\ sleeps = 2)

C24_Witness ==
  /\ exitPath = "navExhausted"
  /\ Settled
  /\ navCalls = 3
  /\ sleptMs = 4000

\* C25: for each content selector the container strategy takes the text of
\* the first matching element only: later matches neither count toward the
\* 200 characters nor belong to the accepted text.
C25_FirstElementOnly ==
  (Applied /\ copy = "esm") =>
    LET clears == { k \in 1..Len(contentSelectors) :
                      /\ input.sel[contentSelectors[k]] # <<>>
                      /\ TextLen(Trim(input.sel[contentSelectors[k]][1])) > 200 }
    IN output.stages.container =
         IF clears = {} THEN <<>>
         ELSE Trim(input.sel[contentSelectors[
                CHOOSE k \in clears : \A j \in clears : k <= j]][1])

\* C26: the whole-body strategy runs exactly when the text chosen so far
\* (the container text, else the joined paragraphs) is shorter than 100
\* characters, and the extracted text is then the body text; a container
\* text above 200 or joined paragraphs of 100 or more are kept.
C26_BodyWhenShort ==
  (Applied /\ copy = "esm") =>
    LET yield == C19_ContainerYield(input)
        soFar == IF yield # <<>> THEN yield ELSE Trim(C19_Joined(input.paras))
        short == TextLen(soFar) < 100
    IN /\ output.stages.ranBody = short
       /\ short => output.stages.text = Trim(input.body)
       /\ ~short => output.stages.text = soFar

C26_Witness ==
  /\ Applied
  /\ copy = "esm"
  /\ input.sel["article"] = << <<W(200)>> >>
  /\ input.paras = << <<W(49)>>, <<W(49)>> >>
  /\ input.body = <<S(3), W(400), S(1), W(20)>>
  /\ output.stages.ranBody
  /\ output.stages.text = <<W(400), S(1), W(20)>>

C27_Names == {<<"i","n","d","e","x">>, <<"h","o","m","e">>, <<"d","e","f","a","u","l","t">>, <<"w","e","l","c","o","m","e">>}

\* the extension of a path /name.<ext> with one of the four names, or <<>>
C27_ExtOf(path) ==
  LET lower == ToLower(path)
      fits == { nm \in C27_Names :
                  /\ Len(lower) > Len(nm) + 2
                  /\ SubSeq(lower, 1, Len(nm) + 2) = <<"/">> \o nm \o <<".">>
                  /\ \A k \in (Len(nm) + 3)..Len(lower) : lower[k] # "/" }
  IN IF fits = {} THEN <<>>
     ELSE LET nm == CHOOSE n \in fits : TRUE
          IN SubSeq(lower, Len(nm) + 3, Len(lower))

\* C27 as stated: isHomepage answers skippable for /index.<ext>,
\* /home.<ext>, /default.<ext> and /welcome.<ext> with any extension.
C27_AnyExtensionSkipped ==
  (Applied /\ input.valid /\ C27_ExtOf(input.path) # <<>>) => output.val = TRUE

\* C27: isHomepage answers skippable for /index.<ext>, /home.<ext>,
\* /default.<ext> and /welcome.<ext> when <ext> is html, php, asp or jsp in
\* any letter case, and not skippable for another extension.
C27_ListedExtensionsSkipped ==
  (Applied /\ input.valid /\ C27_ExtOf(input.path) # <<>>) =>
    output.val = (C27_ExtOf(input.path) \in {<<"h","t","m","l">>, <<"p","h","p">>, <<"a","s","p">>, <<"j","s","p">>})

C27_Witness ==
  /\ Applied
  /\ input.valid
  /\ input.path = <<"/","W","E","L","C","O","M","E",".","J","S","P">>
  /\ output.val = TRUE

\* C30: isHomepage decides on the path alone: a parseable URL gets the
\* classification of the URL with the same path on a fixed host without
\* query string and fragment, so two URLs with one path agree, and a root
\* path with a query string is skipped.
C30_PathAloneDecides ==
  (Applied /\ input.valid) =>
    /\ output.val =
         isHomepage([valid |-> TRUE, host |-> "plain.example",
                     path |-> input.path, search |-> <<>>, hash |-> <<>>])
    /\ (input.path \in {<<>>, <<"/">>} /\ input.search = <<"?","p","=","1","2","3">>)
         => output.val = TRUE

C30_Witness ==
  /\ Applied
  /\ input.valid
  /\ input.host = "blog.example"
  /\ input.path = <<"/">>
  /\ input.search = <<"?","p","=","1","2","3">>
  /\ input.hash = <<"#","t","o","p">>
  /\ output.val = TRUE

\* C28: the two copies emit articles for the same URLs: for the same
\* rendering outcomes and page content, the call that reads a document ends
\* with content in one copy exactly when it does in the other.
C28_CopiesEmitSameUrls ==
  (exitPath \in {"success", "insufficient"}) =>
    LET other == IF copy = "esm" THEN "cjs" ELSE "esm"
    IN (ret.content # <<>>) <=> (ExtractTable[other][doc].content # <<>>)

\* C29: only an attempt that errored or timed out is retried: a navigation
\* that completed ends the loop, and when it gave no response the URL fails
\* validation with an empty result and no further attempt.
C29_CompletedAttemptEndsLoop ==
  /\ (pc \in {"nav", "navsleep"} /\ navCalls >= 1) => lastNav \in {"error", "timeout"}
  /\ (lastNav = "resolved" /\ response = Null /\ "validate" \in reached) =>
       (exitPath = "badResponse" /\ ret = Empty)
  /\ (lastNav = "resolved" /\ response = Null) => "wait" \notin reached

C29_Witness ==
  /\ lastNav = "resolved"
  /\ response = Null
  /\ navCalls = 2
  /\ exitPath = "badResponse"
  /\ Settled

\* the URLs this run of main has marked as processed
Marked == store \ input.processed

\* the message reached the recipient: the messaging service accepted it
Delivered == \E k \in 1..Len(api) : api[k].accepted

C32_MarkedOnlyWhenDelivered ==
  (pc = "exit" /\ Marked # {}) => Delivered

\* C33: sendArticleSummaries never propagates a send failure: whenever its
\* call of sendWhatsAppMessage raises, it returns {status: "format_only",
\* formattedMessage} with the message formatMessage built.
C33_SendFailureSwallowed ==
  (Applied /\ input.kind = "articles") =>
    LET fmt == formatMessage(input.articles, input.dateLen)
    IN (/\ fmt.kind = "returned"
        /\ sendWhatsAppMessage(fmt.val, input.env).kind = "raised")
         => /\ output.kind = "returned"
            /\ output.val = [status |-> "format_only",
                             formattedMessage |-> fmt.val]

\* the API rejects a summary of 40 characters formatted on a short date
C33_Witness ==
  /\ Applied
  /\ input.kind = "articles"
  /\ input.env = [set |-> EnvNames, client |-> TRUE, create |-> "error"]
  /\ output.calls # <<>>
  /\ ~output.calls[1].accepted
  /\ output.val = [status |-> "format_only",
                   formattedMessage |->
                     <<[ch |-> "h", n |-> 45], [ch |-> "a", n |-> 40],
                       [ch |-> "\n", n |-> 1]>>]

\* C34: the body sendWhatsAppMessage passes to the messaging API is never
\* longer than 1600 characters: a message of at most 1600 characters is
\* passed unchanged, a longer one as its first 1597 characters and "...".
C34_BodyWithinLimit ==
  (Applied /\ input.kind = "message") =>
    \A k \in 1..Len(output.calls) :
      LET body == output.calls[k].body
          msg == input.message
      IN /\ MsgLen(body) <= 1600
         /\ MsgLen(msg) <= 1600 => body = msg
         /\ MsgLen(msg) > 1600 =>
              /\ MsgLen(body) = 1600
              /\ \A p \in 1..1597 : CharAt(body, p) = CharAt(msg, p)
              /\ \A p \in 1598..1600 : CharAt(body, p) = "."

\* a message of 1602 characters whose last five are "b" is cut to 1600
C34_Witness ==
  /\ Applied
  /\ input.kind = "message"
  /\ input.message = <<[ch |-> "a", n |-> 1597], [ch |-> "b", n |-> 5]>>
  /\ output.calls = <<[body |-> <<[ch |-> "a", n |-> 1597], [ch |-> ".", n |-> 3]>>,
                       accepted |-> TRUE]>>

====
